---- MODULE Spec2Model ----
(***************************************************************************)
(* JiraAnalytics: the fetch / cache / transform pipeline.                  *)
(*   src/src/jira_client.py     JiraClient  (cache store + issue fetcher)  *)
(*   src/src/data_processor.py  DataProcessor (table, statistics, series)  *)
(*   src/src/main.py            main (one run of the pipeline)             *)
(***************************************************************************)
EXTENDS Integers, Sequences, FiniteSets, TLC

VARIABLES
    JIRA_AVAILABLE,  \* jira_client.py:12-17, set once at import
    remote,          \* the project's issues on the server, in "created DESC" order
    _jira,           \* JiraClient._jira is not None
    clock,           \* wall clock, minutes
    files,           \* data/cache: file name -> file
    pc,              \* position of the running get_*_issues call
    op,              \* "closed" (get_closed_issues) or "all" (get_all_issues)
    max_results,     \* its max_results argument
    issues,          \* its local list `issues`
    start_at,        \* its local `start_at`
    requests,        \* remote calls made by the running call, in order
    ret,             \* how the call ended: value returned or exception raised
    calls,           \* number of get_*_issues calls started
    faults,          \* number of cache files damaged from outside
    sizes,           \* the max_results values the caller uses
    budget,          \* the number of calls the caller makes
    tpc,             \* the transform used directly: "issues", "raised", "batch", "table", "stats", "series"
    source_issues,   \* the remote issues given to _issue_to_dict, one after the other
    table_issues,    \* the list of issue dicts given to create_dataframe
    table,           \* the table create_dataframe returned
    table_stats,     \* what get_statistics(table) returned
    table_series,    \* what prepare_for_plotting(table) returned
    table_again,     \* the table a second create_dataframe on the same list returned
    mpc,             \* position of main: "start", "closed", "all", "exit"
    max_issues,      \* jira_config['max_issues']
    closed_issues,   \* main's locals, as named in main.py
    all_issues,
    df_closed,
    df_all,
    stats,
    plot_data,       \* the merged series handed to create_all_plots
    exit_code,       \* what main returned
    stages,          \* the stages main went through, in order
    runs             \* number of runs of main finished before this one

fetchVars == <<JIRA_AVAILABLE, remote, _jira, clock, files, pc, op, max_results, issues, start_at, requests, ret, calls, faults, sizes, budget>>

tableVars == <<tpc, source_issues, table_issues, table, table_stats, table_series, table_again>>

mainVars == <<mpc, max_issues, closed_issues, all_issues, df_closed, df_all, stats, plot_data, exit_code, stages, runs>>

vars == <<fetchVars, tableVars, mainVars>>

----------------------------------------------------------------------------
(* Bounds of the model *)

MaxClock == 60
MaxCalls == 2
MaxFaults == 1
MaxBatch == 3
MaxRuns == 1

(* Program constants *)

batch_size == 100
cache_duration == 60
SecondsPerHour == 3600

TickMinutes == {30}

NULL == "None"

Min(a, b) == IF a < b THEN a ELSE b

----------------------------------------------------------------------------
(* Optional numbers: None, or a number. *)
NoneNum == [some |-> FALSE, v |-> 0]
Some(n) == [some |-> TRUE, v |-> n]

(* Timestamps as the server sends them: None, text that is no ISO date,    *)
(* or an ISO date: t seconds after 2024-01-01T00:00:00Z, tz TRUE when the  *)
(* text carries a UTC offset.                                              *)
NoStamp == [kind |-> "null", t |-> 0, tz |-> FALSE]
BAD == [kind |-> "bad", t |-> 0, tz |-> FALSE]
Stamp(hours, aware) == [kind |-> "iso", t |-> hours * SecondsPerHour, tz |-> aware]

(* A remote issue: the attributes _issue_to_dict reads. *)
Issue(k, c, s, p, r, rep) == [key |-> k, created |-> c, status |-> s, priority |-> p, resolutiondate |-> r, reporter |-> rep]

(* datetime.fromisoformat(x.replace('Z', '+00:00')): "ok", or the exception. *)
fromisoformat(s) == IF s.kind = "null" THEN "AttributeError" ELSE IF s.kind = "bad" THEN "ValueError" ELSE "ok"

(* (resolved - created): aware and naive datetimes cannot be subtracted. *)
SubtractRaises(c, r) == c.tz # r.tz

OpenTime_ZeroOnFailure(fields) ==
    IF fromisoformat(fields.created) # "ok" THEN [exc |-> "none", v |-> Some(0)]
    ELSE IF fromisoformat(fields.resolutiondate) # "ok" THEN [exc |-> "none", v |-> Some(0)]
    ELSE IF SubtractRaises(fields.created, fields.resolutiondate) THEN [exc |-> "TypeError", v |-> NoneNum]
    ELSE [exc |-> "none", v |-> Some((fields.resolutiondate.t - fields.created.t) \div SecondsPerHour)]

(* The try block of _issue_to_dict: exc is the exception that escapes it   *)
(* ("none" when it completes), v the value it gives open_time_hours.       *)
OpenTime(fields) ==
    IF fromisoformat(fields.created) # "ok" THEN [exc |-> "none", v |-> NoneNum]
    ELSE IF fromisoformat(fields.resolutiondate) # "ok" THEN [exc |-> "none", v |-> NoneNum]
    ELSE IF SubtractRaises(fields.created, fields.resolutiondate) THEN [exc |-> "TypeError", v |-> NoneNum]
    ELSE [exc |-> "none", v |-> Some((fields.resolutiondate.t - fields.created.t) \div SecondsPerHour)]

IssueRaises(issue) == issue.resolutiondate.kind # "null" /\ OpenTime(issue).exc # "none"

_issue_to_dict(issue) ==
    LET base == [key |-> issue.key, summary |-> "summary", created |-> issue.created,
                 status |-> issue.status, priority |-> issue.priority,
                 resolved |-> issue.resolutiondate,
                 open_time_hours |-> IF issue.resolutiondate.kind # "null" THEN OpenTime(issue).v ELSE NoneNum]
    IN  IF issue.reporter # NULL
        THEN [k \in DOMAIN base \cup {"reporter"} |-> IF k = "reporter" THEN issue.reporter ELSE base[k]]
        ELSE base

----------------------------------------------------------------------------
(* What the server can hold. *)

ClosedOk == Issue("K-1", Stamp(0, TRUE), "Closed", "Major", Stamp(60, TRUE), "ann")
OpenIssue == Issue("K-2", Stamp(24, TRUE), "Open", NULL, NoStamp, NULL)
Resolved == Issue("K-3", Stamp(48, TRUE), "Resolved", "Minor", Stamp(72, TRUE), "bob")
ClosedNeg == Issue("K-4", Stamp(60, TRUE), "Closed", "Major", Stamp(0, TRUE), NULL)
ClosedBadCreated == Issue("K-5", BAD, "Closed", "Minor", Stamp(24, TRUE), NULL)
ClosedMixedTz == Issue("K-6", Stamp(0, FALSE), "Closed", "Major", Stamp(24, TRUE), NULL)
ClosedNoCreated == Issue("K-7", NoStamp, "Closed", "Minor", Stamp(24, TRUE), NULL)
ClosedBadResolved == Issue("K-8", Stamp(0, TRUE), "Closed", "Minor", BAD, "ann")
ClosedNaive == Issue("K-9", Stamp(24, FALSE), "Closed", "Major", Stamp(34, FALSE), NULL)
ClosedNoPriority == Issue("K-10", Stamp(30, TRUE), "Closed", NULL, Stamp(50, TRUE), NULL)
ClosedLate == Issue("K-11", Stamp(800, TRUE), "Closed", "Major", Stamp(830, TRUE), "bob")

BigIssue(i, closed) == Issue(ToString(i), Stamp(i, TRUE), IF closed THEN "Closed" ELSE "Open", "Major", IF closed THEN Stamp(i + 1, TRUE) ELSE NoStamp, NULL)

(* nc closed issues followed by no open ones *)
Big(nc, no) == [i \in 1..(nc + no) |-> BigIssue(i, i <= nc)]

(* The uses of the fetcher explored: a server content, the sizes asked    *)
(* for and the number of calls. Several calls on a small project, one call *)
(* on a project of more than a page.                                       *)
Scenario(r, s, b) == [remote |-> r, sizes |-> s, budget |-> b]

Scenarios ==
    { Scenario(<<>>, {0, 1, 100}, MaxCalls),
      Scenario(<<ClosedOk, OpenIssue, Resolved>>, {0, 1, 100}, MaxCalls),
      Scenario(<<ClosedOk, ClosedMixedTz>>, {1, 100}, MaxCalls),
      Scenario(Big(100, 20), {0, 100, 200}, 1) }

(* What main is run on: the server's content and max_issues of the config. *)
MainRemotes ==
    { <<>>,
      <<ClosedOk, OpenIssue, Resolved>>,
      <<OpenIssue, ClosedNeg, ClosedBadCreated, ClosedNoCreated>>,
      <<ClosedOk, ClosedMixedTz>>,
      <<Resolved, ClosedOk, OpenIssue>> }

ConfigMaxIssues == {1, 100, 1000}

(* The sizes asked of the server of any page length: none, one record,    *)
(* a page and a half, two pages.                                           *)
PagingSizes == {-1, 0, 1, 150, 200}

MaxResultsChoices == UNION { sc.sizes : sc \in Scenarios } \cup { Min(c, 500) : c \in ConfigMaxIssues } \cup PagingSizes

(* jql of get_closed_issues (line 127) and of get_all_issues (line 204) *)
Matching(o) == IF o = "closed" THEN SelectSeq(remote, LAMBDA i : i.status = "Closed") ELSE remote

(* jira.search_issues(jql, startAt, maxResults) on a server that answers *)
search_issues(o, startAt, maxResults) ==
    LET m == Matching(o)
    IN  SubSeq(m, startAt + 1, Min(startAt + maxResults, Len(m)))

----------------------------------------------------------------------------
(* The cache store: files of data/cache. *)

project_key == "KAFKA"
cache_dir == "data/cache"

cache_key_Shared(o, m) == "issues_" \o ToString(m)

(* cache_key of get_closed_issues (line 110) and get_all_issues (line 187) *)
cache_key(o, m) == (IF o = "closed" THEN "closed_issues_" ELSE "all_issues_") \o ToString(m)

(* The keys built here hold no '/' and no ':', so safe_key is the key. *)
_get_cache_filename(key) == cache_dir \o "/" \o project_key \o "_" \o key \o ".json"

Ops == {"closed", "all"}
CacheFiles == { _get_cache_filename(cache_key(o, m)) : o \in Ops, m \in MaxResultsChoices }

(* A file: kind "json" holds the text json.dump wrote, "partial" a text    *)
(* that is no JSON document, "binary" bytes that are no UTF-8 text.        *)
(* A file that is not readable is not writable either (a directory in its  *)
(* place, a file of another user). data and writer remember the list last  *)
(* written in full and the call that wrote it.                             *)
NoWriter == [op |-> "none", max_results |-> 0]
NoFile == [exists |-> FALSE, mtime |-> 0, kind |-> "none", text |-> <<>>, readable |-> TRUE, data |-> <<>>, writer |-> NoWriter]

(* json.dump / json.load of a list of issue dicts. A JSON object is the    *)
(* sequence of its (name, value) members in the dict's insertion order.    *)
DictOrder == <<"key", "summary", "created", "status", "priority", "resolved", "open_time_hours", "reporter", "assignee">>

JsonNull == [j |-> "null"]

json_value(k, v) ==
    IF k = "open_time_hours" THEN (IF v.some THEN [j |-> "number", n |-> v.v] ELSE JsonNull)
    ELSE IF k \in {"created", "resolved"} THEN (IF v.kind = "null" THEN JsonNull ELSE [j |-> "string", s |-> v])
    ELSE IF v = NULL THEN JsonNull ELSE [j |-> "string", s |-> v]

python_value(k, tok) ==
    IF tok.j = "number" THEN Some(tok.n)
    ELSE IF tok.j = "string" THEN tok.s
    ELSE IF k = "open_time_hours" THEN NoneNum
    ELSE IF k \in {"created", "resolved"} THEN NoStamp
    ELSE NULL

json_object_NoOptional(d) ==
    LET keys == SelectSeq(DictOrder, LAMBDA k : k \in DOMAIN d /\ k \notin {"reporter", "assignee"})
    IN  [i \in 1..Len(keys) |-> <<keys[i], json_value(keys[i], d[keys[i]])>>]

json_object(d) ==
    LET keys == SelectSeq(DictOrder, LAMBDA k : k \in DOMAIN d)
    IN  [i \in 1..Len(keys) |-> <<keys[i], json_value(keys[i], d[keys[i]])>>]

python_dict(obj) ==
    LET names == { obj[i][1] : i \in 1..Len(obj) }
        member(k) == obj[CHOOSE i \in 1..Len(obj) : obj[i][1] = k][2]
    IN  [k \in names |-> python_value(k, member(k))]

json_dump(data) == [i \in 1..Len(data) |-> json_object(data[i])]

json_load(text) == [i \in 1..Len(text) |-> python_dict(text[i])]

(* Variants of the code used to test the properties below. *)
_is_cache_valid_Reversed(cache_file) ==
    /\ files[cache_file].exists
    /\ clock - files[cache_file].mtime > cache_duration

_is_cache_valid_Inclusive(cache_file) ==
    /\ files[cache_file].exists
    /\ clock - files[cache_file].mtime <= cache_duration

_is_cache_valid(cache_file) ==
    /\ files[cache_file].exists
    /\ clock - files[cache_file].mtime < cache_duration

(* _load_from_cache: the exception that escapes it ("none" when it returns) *)
LoadException(cache_file) ==
    IF ~files[cache_file].exists THEN "none"               \* FileNotFoundError, caught
    ELSE IF ~files[cache_file].readable THEN "PermissionError"
    ELSE IF files[cache_file].kind = "binary" THEN "UnicodeDecodeError"
    ELSE "none"

(* _load_from_cache: the list it returns when it returns *)
_load_from_cache(cache_file) ==
    IF files[cache_file].exists /\ files[cache_file].kind = "json"
    THEN json_load(files[cache_file].text)
    ELSE <<>>                                                \* JSONDecodeError, FileNotFoundError

(* _save_to_cache: the file afterwards. how = "ok"; "open" when open()      *)
(* fails; "dump" when json.dump fails after open() truncated the file.     *)
SaveOutcomes == {"ok", "open", "dump"}

_save_to_cache_SkipEmpty(cache_file, data, how, who) ==
    IF how = "open" \/ data = <<>> THEN files[cache_file]
    ELSE [exists |-> TRUE, mtime |-> clock,
          kind |-> IF how = "ok" THEN "json" ELSE "partial",
          text |-> IF how = "ok" THEN json_dump(data) ELSE <<>>,
          readable |-> TRUE,
          data |-> IF how = "ok" THEN data ELSE <<>>,
          writer |-> who]

_save_to_cache(cache_file, data, how, who) ==
    IF how = "open" THEN files[cache_file]
    ELSE [exists |-> TRUE, mtime |-> clock,
          kind |-> IF how = "ok" THEN "json" ELSE "partial",
          text |-> IF how = "ok" THEN json_dump(data) ELSE <<>>,
          readable |-> TRUE,
          data |-> IF how = "ok" THEN data ELSE <<>>,
          writer |-> who]

----------------------------------------------------------------------------
(* get_closed_issues / get_all_issues. One step runs the call up to its    *)
(* next remote call, or to its end.                                        *)

(* How a call ended. kind: "return" or "raise"; value: the list returned;  *)
(* via: "cache", "remote", "unavailable", "error" (the remote call failed) *)
(* or the exception's name; saved: what became of _save_to_cache; at: when. *)
NoRet == [kind |-> "none", value |-> <<>>, via |-> "none", saved |-> "none", at |-> 0]
Returned(v, via, saved) == [kind |-> "return", value |-> v, via |-> via, saved |-> saved, at |-> clock]
Raised(via) == [kind |-> "raise", value |-> <<>>, via |-> via, saved |-> "none", at |-> clock]

(* The remote calls of a fetch, as logged in requests. *)
ConnectCall == [call |-> "connect", startAt |-> 0, maxResults |-> 0, failed |-> FALSE]
SearchCall(sa, n) == [call |-> "search", startAt |-> sa, maxResults |-> n, failed |-> FALSE]
Failed(reqs) == [reqs EXCEPT ![Len(reqs)].failed = TRUE]

CacheFile == _get_cache_filename(cache_key(op, max_results))

(* The call ends: its locals are gone. *)
Finish(r, reqs, fs) ==
    /\ pc' = "done"
    /\ ret' = r
    /\ requests' = reqs
    /\ files' = fs
    /\ issues' = <<>>
    /\ start_at' = 0

(* a variant whose handler keeps what the pages gave before the failure *)
ExceptReturn_KeepsPages(via, reqs) ==
    Finish(Returned(issues, via, "ok"), reqs,
        [files EXCEPT ![CacheFile] = _save_to_cache(CacheFile, issues, "ok", [op |-> op, max_results |-> max_results])])

ExceptReraise(via, reqs) == Finish(Raised(via), reqs, files)

(* lines 158-163 / 244-249: any exception of the try block *)
ExceptReturn(via, reqs) == Finish(Returned(<<>>, via, "none"), reqs, files)

SaveAndReturn_Raises(iss, reqs) ==
    \E how \in SaveOutcomes :
        /\ files[CacheFile].readable \/ how = "open"
        /\ IF how = "ok"
           THEN Finish(Returned(iss, "remote", how), reqs,
                    [files EXCEPT ![CacheFile] = _save_to_cache(CacheFile, iss, how, [op |-> op, max_results |-> max_results])])
           ELSE Finish([Raised("OSError") EXCEPT !.saved = how], reqs,
                    [files EXCEPT ![CacheFile] = _save_to_cache(CacheFile, iss, how, [op |-> op, max_results |-> max_results])])

(* a variant that writes the batch under the keys of both queries *)
SaveAndReturn_BothEntries(iss, reqs) ==
    \E how \in SaveOutcomes :
        /\ files[CacheFile].readable \/ how = "open"
        /\ Finish(Returned(iss, "remote", how), reqs,
               [f \in CacheFiles |->
                  IF f \in { _get_cache_filename(cache_key(o, max_results)) : o \in Ops }
                  THEN _save_to_cache(f, iss, how, [op |-> op, max_results |-> max_results])
                  ELSE files[f]])

(* lines 153-156 / 230-242 *)
SaveAndReturn(iss, reqs) ==
    \E how \in SaveOutcomes :
        /\ files[CacheFile].readable \/ how = "open"
        /\ Finish(Returned(iss, "remote", how), reqs,
               [files EXCEPT ![CacheFile] = _save_to_cache(CacheFile, iss, how, [op |-> op, max_results |-> max_results])])

(* line 133 / 210: the loop condition, then lines 134-139 or the loop's end *)
LoopHead(iss, sa, reqs) ==
    IF Len(iss) < max_results
    THEN /\ pc' = "page"
         /\ issues' = iss
         /\ start_at' = sa
         /\ requests' = Append(reqs, SearchCall(sa, Min(batch_size, max_results - Len(iss))))
         /\ ret' = NoRet
         /\ files' = files
    ELSE SaveAndReturn(iss, reqs)

CacheHit_AnyData(cache_file) == _is_cache_valid(cache_file)

(* lines 113-116 / 191-193: the entry is valid and `if cached_data:` *)
CacheHit(cache_file) == _is_cache_valid(cache_file) /\ _load_from_cache(cache_file) # <<>>

(* a variant that looks into the cache before it gives up *)
library_missing_AfterCache(cache_file) ==
    /\ ~JIRA_AVAILABLE
    /\ ~(_is_cache_valid(cache_file) /\ LoadException(cache_file) = "none" /\ _load_from_cache(cache_file) # <<>>)

(* line 103 / 180: `if not JIRA_AVAILABLE`, before cache_file is looked at *)
library_missing(cache_file) == ~JIRA_AVAILABLE

(* lines 103-121 / 180-198 *)
get_issues(o, m) ==
    /\ op' = o
    /\ max_results' = m
    /\ LET cache_file == _get_cache_filename(cache_key(o, m))
       IN  IF library_missing(cache_file)
           THEN Finish(Returned(<<>>, "unavailable", "none"), <<>>, files)
           ELSE IF _is_cache_valid(cache_file) /\ LoadException(cache_file) # "none"
           THEN Finish(Raised(LoadException(cache_file)), <<>>, files)
           ELSE IF CacheHit(cache_file)
           THEN Finish(Returned(_load_from_cache(cache_file), "cache", "none"), <<>>, files)
           ELSE /\ pc' = "connect"
                /\ ret' = NoRet
                /\ requests' = <<>>
                /\ issues' = <<>>
                /\ start_at' = 0
                /\ files' = files
    /\ UNCHANGED <<JIRA_AVAILABLE, remote, _jira, clock, faults, sizes, budget>>

(* line 124 / 201 with get_jira_client (lines 51-61), then lines 129-133 *)
get_jira_client ==
    /\ pc = "connect"
    /\ IF _jira
       THEN /\ _jira' = _jira
            /\ LoopHead(<<>>, 0, requests)
       ELSE \E connected \in BOOLEAN :
            /\ _jira' = connected
            /\ IF connected
               THEN LoopHead(<<>>, 0, Append(requests, ConnectCall))
               ELSE ExceptReturn("error", Failed(Append(requests, ConnectCall)))
    /\ UNCHANGED <<JIRA_AVAILABLE, remote, clock, op, max_results, calls, faults, sizes, budget>>
    /\ UNCHANGED <<tableVars, mainVars>>

(* a variant without the break of lines 150-151 *)
page_received_NoShortBreak(batch) ==
    IF batch = <<>>
    THEN SaveAndReturn(issues, requests)
    ELSE IF \E i \in 1..Len(batch) : IssueRaises(batch[i])
    THEN ExceptReturn("TypeError", requests)
    ELSE LoopHead(issues \o [i \in 1..Len(batch) |-> _issue_to_dict(batch[i])], start_at + Len(batch), requests)

(* lines 141-151 / 218-228: the page batch has come back *)
page_received(batch) ==
    IF batch = <<>>
    THEN SaveAndReturn(issues, requests)
    ELSE IF \E i \in 1..Len(batch) : IssueRaises(batch[i])
    THEN ExceptReturn("TypeError", requests)
    ELSE LET iss == issues \o [i \in 1..Len(batch) |-> _issue_to_dict(batch[i])]
         IN  IF Len(batch) < batch_size
             THEN SaveAndReturn(iss, requests)
             ELSE LoopHead(iss, start_at + Len(batch), requests)

(* The answer to the pending search_issues call, then lines 141-151 *)
search_page ==
    /\ pc = "page"
    /\ \E answered \in BOOLEAN :
        IF ~answered
        THEN ExceptReturn("error", Failed(requests))
        ELSE LET req == requests[Len(requests)]
             IN  page_received(search_issues(op, req.startAt, req.maxResults))
    /\ UNCHANGED <<JIRA_AVAILABLE, remote, _jira, clock, op, max_results, calls, faults, sizes, budget>>
    /\ UNCHANGED <<tableVars, mainVars>>

(* A server that answers every page request with a page of any length,    *)
(* whatever was asked for: PageLengths holds lengths below, at and above   *)
(* batch_size. Its issues are numbered from startAt on.                    *)
PageLengths == {0, 1, 50, 99, 100, 101, 250}

Page(startAt, n) == [i \in 1..n |-> BigIssue(startAt + i, TRUE)]

search_page_any ==
    /\ pc = "page"
    /\ \E n \in PageLengths : page_received(Page(requests[Len(requests)].startAt, n))
    /\ UNCHANGED <<JIRA_AVAILABLE, remote, _jira, clock, op, max_results, calls, faults, sizes, budget>>
    /\ UNCHANGED <<tableVars, mainVars>>

----------------------------------------------------------------------------
(* The environment *)

Tick ==
    /\ pc = "idle"
    /\ \E d \in TickMinutes :
        /\ clock + d <= MaxClock
        /\ clock' = clock + d
    /\ UNCHANGED <<JIRA_AVAILABLE, remote, _jira, files, pc, op, max_results, issues, start_at, requests, ret, calls, faults, sizes, budget>>
    /\ UNCHANGED <<tableVars, mainVars>>

(* A cache file is damaged from outside: truncated, overwritten with bytes *)
(* that are no text, or made unreadable.                                   *)
DamageFile ==
    /\ pc = "idle"
    /\ faults < MaxFaults
    /\ faults' = faults + 1
    /\ \E f \in CacheFiles :
        /\ files[f].exists
        /\ \/ files' = [files EXCEPT ![f].kind = "partial", ![f].text = <<>>, ![f].data = <<>>, ![f].mtime = clock]
           \/ files' = [files EXCEPT ![f].kind = "binary", ![f].text = <<>>, ![f].data = <<>>, ![f].mtime = clock]
           \/ files' = [files EXCEPT ![f].readable = FALSE]
    /\ UNCHANGED <<JIRA_AVAILABLE, remote, _jira, clock, pc, op, max_results, issues, start_at, requests, ret, calls, sizes, budget>>
    /\ UNCHANGED <<tableVars, mainVars>>

(* The process ends and the program is started again: the module is       *)
(* imported anew, in an environment that may or may not hold the jira      *)
(* library, and a new JiraClient is built. The cache files stay.           *)
Restart ==
    /\ pc = "idle"
    /\ JIRA_AVAILABLE' \in BOOLEAN
    /\ _jira' = FALSE
    /\ JIRA_AVAILABLE' # JIRA_AVAILABLE \/ _jira
    /\ UNCHANGED <<remote, clock, files, pc, op, max_results, issues, start_at, requests, ret, calls, faults, sizes, budget>>
    /\ UNCHANGED <<tableVars, mainVars>>

----------------------------------------------------------------------------
(* The fetcher used directly: any sequence of calls on JiraClient. *)

CallFetch ==
    /\ pc = "idle"
    /\ calls < budget
    /\ calls' = calls + 1
    /\ \E o \in Ops, m \in sizes : get_issues(o, m)
    /\ UNCHANGED <<tableVars, mainVars>>

(* The caller takes the result. *)
ReturnFetch ==
    /\ pc = "done"
    /\ pc' = "idle"
    /\ ret' = NoRet
    /\ requests' = <<>>
    /\ op' = "closed"
    /\ max_results' = 0
    /\ UNCHANGED <<JIRA_AVAILABLE, remote, _jira, clock, files, issues, start_at, calls, faults, sizes, budget>>
    /\ UNCHANGED <<tableVars, mainVars>>

----------------------------------------------------------------------------
(* DataProcessor. A table (DataFrame) is its set of columns and its rows   *)
(* in order; a row maps each column to its value. A dict whose keys vary   *)
(* is a function on its keys.                                              *)

EmptyFrame == [columns |-> {}, rows |-> <<>>]

empty_Never(df) == FALSE

(* df.empty *)
empty(df) == df.rows = <<>> \/ df.columns = {}

(* pd.DataFrame(issues): the columns are the keys met, a key a record      *)
(* lacks (reporter, assignee) is a missing value in its row.               *)
FromRecords(recs) ==
    LET cols == UNION { DOMAIN recs[i] : i \in 1..Len(recs) }
    IN  [columns |-> cols,
         rows |-> [i \in 1..Len(recs) |-> [c \in cols |-> IF c \in DOMAIN recs[i] THEN recs[i][c] ELSE NULL]]]

(* pd.to_datetime(x, errors='coerce', utc=True): a UTC time, or NaT *)
NaT == NoStamp
to_datetime_Strict(s) == IF s.kind = "iso" THEN [kind |-> "iso", t |-> s.t, tz |-> TRUE] ELSE s

to_datetime(s) == IF s.kind = "iso" THEN [kind |-> "iso", t |-> s.t, tz |-> TRUE] ELSE NaT

_convert_dates(df) ==
    LET date_columns == {"created", "resolved", "updated"}
    IN  [columns |-> df.columns,
         rows |-> [i \in 1..Len(df.rows) |->
                    [c \in df.columns |-> IF c \in date_columns THEN to_datetime(df.rows[i][c]) ELSE df.rows[i][c]]]]

(* .dt.date, .dt.year, .dt.month of a time of the year 2024: the day is    *)
(* counted from 2024-01-01; a missing time gives a missing value.          *)
DaysBefore == <<0, 31, 60, 91, 121, 152, 182, 213, 244, 274, 305, 335>>
DayOf(ts) == ts.t \div (24 * SecondsPerHour)
date(ts) == IF ts.kind = "iso" THEN Some(DayOf(ts)) ELSE NoneNum
year(ts) == IF ts.kind = "iso" THEN Some(2024) ELSE NoneNum
month(ts) ==
    IF ts.kind = "iso"
    THEN Some(CHOOSE m \in 1..12 : DaysBefore[m] <= DayOf(ts) /\ (m = 12 \/ DayOf(ts) < DaysBefore[m + 1]))
    ELSE NoneNum

(* A quotient num / den kept exact; NaN when missing. *)
NaN == [some |-> FALSE, num |-> 0, den |-> 1]
Ratio(n, d) == [some |-> TRUE, num |-> n, den |-> d]

_add_calculated_fields(df) ==
    LET has(c) == c \in df.columns
        added == (IF has("created") THEN {"created_date", "created_year", "created_month"} ELSE {})
                 \cup (IF has("resolved") THEN {"resolved_date"} ELSE {})
                 \cup (IF has("open_time_hours") THEN {"open_time_days"} ELSE {})
        value(row, c) ==
            IF c \notin added THEN row[c]
            ELSE CASE c = "created_date" -> date(row["created"])
                   [] c = "created_year" -> year(row["created"])
                   [] c = "created_month" -> month(row["created"])
                   [] c = "resolved_date" -> date(row["resolved"])
                   [] c = "open_time_days" ->
                        IF row["open_time_hours"].some THEN Ratio(row["open_time_hours"].v, 24) ELSE NaN
    IN  [columns |-> df.columns \cup added,
         rows |-> [i \in 1..Len(df.rows) |-> [c \in df.columns \cup added |-> value(df.rows[i], c)]]]

_clean_data_KeepsNegative(df) ==
    [columns |-> df.columns,
     rows |-> IF "created" \in df.columns
              THEN SelectSeq(df.rows, LAMBDA r : r["created"].kind = "iso")
              ELSE df.rows]

(* line 100: dropna(subset=['created']); line 104: the comparison >= 0 is  *)
(* False for a missing value, so the row of a missing open_time_hours goes. *)
_clean_data(df) ==
    LET with_created == IF "created" \in df.columns
                        THEN SelectSeq(df.rows, LAMBDA r : r["created"].kind = "iso")
                        ELSE df.rows
        kept == IF "open_time_hours" \in df.columns
                THEN SelectSeq(with_created, LAMBDA r : r["open_time_hours"].some /\ r["open_time_hours"].v >= 0)
                ELSE with_created
    IN  [columns |-> df.columns, rows |-> kept]

(* an empty batch given a row of missing values *)
create_dataframe_Placeholder(recs) ==
    IF recs = <<>> THEN [columns |-> {"key"}, rows |-> <<[c \in {"key"} |-> NULL]>>]
    ELSE _clean_data(_add_calculated_fields(_convert_dates(FromRecords(recs))))

(* a variant that keeps, in the processor, the rows of its earlier calls *)
create_dataframe_Accumulating(recs) ==
    IF recs = <<>> THEN EmptyFrame
    ELSE LET df == _clean_data(_add_calculated_fields(_convert_dates(FromRecords(recs))))
         IN  [columns |-> df.columns, rows |-> table.rows \o df.rows]

create_dataframe(recs) ==
    IF recs = <<>> THEN EmptyFrame
    ELSE _clean_data(_add_calculated_fields(_convert_dates(FromRecords(recs))))

(* The column c of df without its missing values, in row order. *)
Column(df, c) == [i \in 1..Len(df.rows) |-> df.rows[i][c]]
dropna_Keeps(col) == col

dropna(col) == SelectSeq(col, LAMBDA x : x # NULL)
dropnaNum(col) == LET present == SelectSeq(col, LAMBDA x : x.some) IN [i \in 1..Len(present) |-> present[i].v]

Count(col, x) == Cardinality({ i \in 1..Len(col) : col[i] = x })

(* The indices 1..n in the order given by before, a strict total order:    *)
(* before[j][i] when j comes before i.                                     *)
Order(n, before) ==
    [k \in 1..n |-> CHOOSE i \in 1..n : Cardinality({ j \in 1..n : before[j][i] }) = k - 1]

(* Series.value_counts(): the values met with their counts, the most       *)
(* frequent first, equal counts in the order of first appearance.          *)
value_counts(col) ==
    LET firsts == SelectSeq([i \in 1..Len(col) |-> i], LAMBDA i : \A j \in 1..(i - 1) : col[j] # col[i])
        before == [a \in 1..Len(firsts) |-> [b \in 1..Len(firsts) |->
                     \/ Count(col, col[firsts[a]]) > Count(col, col[firsts[b]])
                     \/ Count(col, col[firsts[a]]) = Count(col, col[firsts[b]]) /\ a < b]]
        order == Order(Len(firsts), before)
    IN  [index |-> [k \in 1..Len(firsts) |-> col[firsts[order[k]]]],
         values |-> [k \in 1..Len(firsts) |-> Count(col, col[firsts[order[k]]])]]

sort_index_Unsorted(vc) == vc

(* sort_index() of a value_counts() of numbers: by value, ascending *)
sort_index(vc) ==
    LET n == Len(vc.index)
        order == Order(n, [a \in 1..n |-> [b \in 1..n |-> vc.index[a] < vc.index[b]]])
    IN  [index |-> [k \in 1..Len(order) |-> vc.index[order[k]]],
         values |-> [k \in 1..Len(order) |-> vc.values[order[k]]]]

prepare_for_plotting(df) ==
    IF empty(df) THEN [k \in {} |-> <<>>]
    ELSE LET keys == (IF "open_time_hours" \in df.columns THEN {"open_time_data"} ELSE {})
                     \cup (IF "priority" \in df.columns THEN {"priority_data"} ELSE {})
                     \cup (IF "created_date" \in df.columns THEN {"daily_tasks_data"} ELSE {})
             priority_counts == value_counts(dropna(Column(df, "priority")))
             created_by_day == sort_index(value_counts(dropnaNum(Column(df, "created_date"))))
         IN  [k \in keys |->
                CASE k = "open_time_data" -> dropnaNum(Column(df, "open_time_hours"))
                  [] k = "priority_data" -> [labels |-> priority_counts.index, values |-> priority_counts.values]
                  [] k = "daily_tasks_data" -> [dates |-> created_by_day.index, created |-> created_by_day.values]]

RECURSIVE Sum(_)
Sum(s) == IF s = <<>> THEN 0 ELSE Head(s) + Sum(Tail(s))

sorted(s) ==
    LET n == Len(s)
        order == Order(n, [a \in 1..n |-> [b \in 1..n |-> s[a] < s[b] \/ (s[a] = s[b] /\ a < b)]])
    IN  [k \in 1..Len(s) |-> s[order[k]]]

mean(s) == Ratio(Sum(s), Len(s))

median_Upper(s) == Ratio(sorted(s)[(Len(s) \div 2) + 1], 1)

median(s) ==
    LET n == Len(s)
        h == n \div 2
    IN  IF n % 2 = 1 THEN Ratio(sorted(s)[h + 1], 1) ELSE Ratio(sorted(s)[h] + sorted(s)[h + 1], 2)

get_statistics(df) ==
    IF empty(df) THEN [k \in {} |-> 0]
    ELSE LET time_data == IF "open_time_hours" \in df.columns
                          THEN dropnaNum(Column(df, "open_time_hours")) ELSE <<>>
             keys == {"total_tasks"} \cup (IF Len(time_data) > 0 THEN {"time_stats"} ELSE {})
         IN  [k \in keys |->
                CASE k = "total_tasks" -> Len(df.rows)
                  [] k = "time_stats" -> [mean |-> mean(time_data), median |-> median(time_data),
                                          min |-> sorted(time_data)[1], max |-> sorted(time_data)[Len(time_data)]]]

----------------------------------------------------------------------------
(* DataProcessor used directly: a batch of issue dicts is made into a      *)
(* table, then statistics and chart series are computed from the table.    *)

(* _issue_to_dict on each issue in turn, as in lines 144-146: the list of  *)
(* dicts, unless a conversion raises.                                      *)
Normalize ==
    /\ tpc = "issues"
    /\ IF \E i \in 1..Len(source_issues) : IssueRaises(source_issues[i])
       THEN /\ tpc' = "raised"
            /\ table_issues' = <<>>
       ELSE /\ tpc' = "batch"
            /\ table_issues' = [i \in 1..Len(source_issues) |-> _issue_to_dict(source_issues[i])]
    /\ UNCHANGED <<source_issues, table, table_stats, table_series, table_again>>
    /\ UNCHANGED <<fetchVars, mainVars>>

CreateDataframe ==
    /\ tpc = "batch"
    /\ tpc' = "table"
    /\ table' = create_dataframe(table_issues)
    /\ UNCHANGED <<source_issues, table_issues, table_stats, table_series, table_again>>
    /\ UNCHANGED <<fetchVars, mainVars>>

GetStatistics ==
    /\ tpc = "table"
    /\ tpc' = "stats"
    /\ table_stats' = get_statistics(table)
    /\ UNCHANGED <<source_issues, table_issues, table, table_series, table_again>>
    /\ UNCHANGED <<fetchVars, mainVars>>

PrepareForPlotting ==
    /\ tpc = "stats"
    /\ tpc' = "series"
    /\ table_series' = prepare_for_plotting(table)
    /\ UNCHANGED <<source_issues, table_issues, table, table_stats, table_again>>
    /\ UNCHANGED <<fetchVars, mainVars>>

(* create_dataframe called once more on the same list *)
CreateDataframeAgain ==
    /\ tpc = "series"
    /\ tpc' = "again"
    /\ table_again' = create_dataframe(table_issues)
    /\ UNCHANGED <<source_issues, table_issues, table, table_stats, table_series>>
    /\ UNCHANGED <<fetchVars, mainVars>>

----------------------------------------------------------------------------
(* main: one run of the pipeline, the imports of main.py having succeeded. *)
(* A step runs main up to its next call of the fetcher, or to its end.     *)

NoDict == [k \in {} |-> 0]

(* max_issues of the configuration passed as it is *)
MaxFetch_Uncapped == max_issues

(* line 74 and line 88 *)
MaxFetch == Min(max_issues, 500)

(* lines 78 and 93: not closed_issues, not all_issues *)
not_Never(batch) == FALSE

not_(batch) == batch = <<>>

(* lines 93-97: the batch the all-status table is built from *)
all_or_closed_NoFallback(fetched, closed) == fetched

all_or_closed(fetched, closed) == IF not_(fetched) THEN closed ELSE fetched

(* the fetcher's result is taken: nothing of the call is left *)
TakeResult ==
    /\ pc' = "idle"
    /\ ret' = NoRet
    /\ requests' = <<>>
    /\ op' = "closed"
    /\ max_results' = 0
    /\ UNCHANGED <<JIRA_AVAILABLE, remote, _jira, clock, files, issues, start_at, faults, sizes, budget>>

(* main returns code: lines 84, 130, 205, 220 *)
Exit(code, done) ==
    /\ mpc' = "exit"
    /\ exit_code' = code
    /\ stages' = stages \o done
    /\ TakeResult

(* lines 42-75: configuration, the client, then get_closed_issues *)
MainStart ==
    /\ mpc = "start"
    /\ pc = "idle"
    /\ mpc' = "closed"
    /\ stages' = <<"config", "fetch_closed">>
    /\ calls' = 1
    /\ get_issues("closed", MaxFetch)
    /\ UNCHANGED <<max_issues, closed_issues, all_issues, df_closed, df_all, stats, plot_data, exit_code, runs>>
    /\ UNCHANGED tableVars

(* lines 75-90: the closed batch is back; an exception of the call goes to *)
(* line 215, an empty batch ends the run, else get_all_issues is called.   *)
MainClosedFetched ==
    /\ mpc = "closed"
    /\ pc = "done"
    /\ IF ret.kind = "raise"
       THEN /\ Exit(1, <<>>)
            /\ UNCHANGED <<calls, closed_issues>>
       ELSE /\ closed_issues' = ret.value
            /\ IF not_(ret.value)
               THEN /\ Exit(1, <<>>)
                    /\ UNCHANGED calls
               ELSE /\ mpc' = "all"
                    /\ stages' = Append(stages, "fetch_all")
                    /\ calls' = calls + 1
                    /\ exit_code' = exit_code
                    /\ get_issues("all", MaxFetch)
    /\ UNCHANGED <<max_issues, all_issues, df_closed, df_all, stats, plot_data, runs>>
    /\ UNCHANGED tableVars

(* lines 90-205: the second batch is back; the fallback, the two tables,   *)
(* the statistics, the series, their merge and the rendering.              *)
MainAllFetched ==
    /\ mpc = "all"
    /\ pc = "done"
    /\ IF ret.kind = "raise"
       THEN /\ Exit(1, <<>>)
            /\ UNCHANGED <<all_issues, df_closed, df_all, stats, plot_data>>
       ELSE LET fetched == all_or_closed(ret.value, closed_issues)
                closed_table == create_dataframe(closed_issues)
                all_table == create_dataframe(fetched)
                plot_data_closed == prepare_for_plotting(closed_table)
                plot_data_all == prepare_for_plotting(all_table)
            IN  /\ all_issues' = fetched
                /\ df_closed' = closed_table
                /\ df_all' = all_table
                /\ IF empty(closed_table)
                   THEN /\ Exit(1, <<"tables">>)
                        /\ UNCHANGED <<stats, plot_data>>
                   ELSE /\ stats' = get_statistics(closed_table)
                        /\ plot_data' = [k \in DOMAIN plot_data_closed \cup DOMAIN plot_data_all |->
                                           IF k \in DOMAIN plot_data_all THEN plot_data_all[k] ELSE plot_data_closed[k]]
                        /\ Exit(0, <<"tables", "stats", "series", "render">>)
    /\ UNCHANGED <<max_issues, closed_issues, calls, runs>>
    /\ UNCHANGED tableVars

(* The process has ended; the program is started again, in an environment  *)
(* that may or may not hold the jira library. The cache files stay.        *)
MainAgain ==
    /\ mpc = "exit"
    /\ runs < MaxRuns
    /\ runs' = runs + 1
    /\ mpc' = "start"
    /\ JIRA_AVAILABLE' \in BOOLEAN
    /\ _jira' = FALSE
    /\ closed_issues' = <<>>
    /\ all_issues' = <<>>
    /\ df_closed' = EmptyFrame
    /\ df_all' = EmptyFrame
    /\ stats' = NoDict
    /\ plot_data' = NoDict
    /\ exit_code' = 0
    /\ stages' = <<>>
    /\ calls' = 0
    /\ UNCHANGED <<remote, clock, files, pc, op, max_results, issues, start_at, requests, ret, faults, sizes, budget, max_issues>>
    /\ UNCHANGED tableVars

----------------------------------------------------------------------------
(* Initial states *)

InitFetch ==
    /\ JIRA_AVAILABLE \in BOOLEAN
    /\ _jira = FALSE
    /\ clock = 0
    /\ files = [f \in CacheFiles |-> NoFile]
    /\ pc = "idle"
    /\ op = "closed"
    /\ max_results = 0
    /\ issues = <<>>
    /\ start_at = 0
    /\ requests = <<>>
    /\ ret = NoRet
    /\ calls = 0
    /\ faults = 0

NoTable ==
    /\ tpc = "none"
    /\ source_issues = <<>>
    /\ table_issues = <<>>
    /\ table = EmptyFrame
    /\ table_stats = NoDict
    /\ table_series = NoDict
    /\ table_again = EmptyFrame

NoMain ==
    /\ mpc = "none"
    /\ max_issues = 0
    /\ closed_issues = <<>>
    /\ all_issues = <<>>
    /\ df_closed = EmptyFrame
    /\ df_all = EmptyFrame
    /\ stats = NoDict
    /\ plot_data = NoDict
    /\ exit_code = 0
    /\ stages = <<>>
    /\ runs = 0

(* The fetcher used directly *)
Init ==
    /\ InitFetch
    /\ \E sc \in Scenarios :
        /\ remote = sc.remote
        /\ sizes = sc.sizes
        /\ budget = sc.budget
    /\ NoTable
    /\ NoMain

Next ==
    \/ CallFetch
    \/ get_jira_client
    \/ search_page
    \/ ReturnFetch
    \/ Tick
    \/ DamageFile
    \/ Restart

Spec == Init /\ [][Next]_vars

(* The transform used directly, on every list of at most MaxBatch issues:  *)
(* _issue_to_dict on each, then DataProcessor on the list of dicts.        *)
TableIssues ==
    { ClosedOk, OpenIssue, Resolved, ClosedNeg, ClosedBadCreated, ClosedMixedTz,
      ClosedNoCreated, ClosedBadResolved, ClosedNaive, ClosedNoPriority, ClosedLate }

RECURSIVE Batches(_)
Batches(n) == IF n = 0 THEN { <<>> } ELSE Batches(n - 1) \cup { Append(b, d) : b \in { x \in Batches(n - 1) : Len(x) = n - 1 }, d \in TableIssues }

InitTable ==
    /\ InitFetch
    /\ JIRA_AVAILABLE
    /\ remote = <<>>
    /\ sizes = {}
    /\ budget = 0
    /\ NoMain
    /\ tpc = "issues"
    /\ source_issues \in Batches(MaxBatch)
    /\ table_issues = <<>>
    /\ table = EmptyFrame
    /\ table_stats = NoDict
    /\ table_series = NoDict
    /\ table_again = EmptyFrame

NextTable ==
    \/ Normalize
    \/ CreateDataframe
    \/ GetStatistics
    \/ PrepareForPlotting
    \/ CreateDataframeAgain

SpecTable == InitTable /\ [][NextTable]_vars

(* main run up to MaxRuns + 1 times on the same server and cache directory *)
InitMain ==
    /\ InitFetch
    /\ remote \in MainRemotes
    /\ sizes = {}
    /\ budget = 0
    /\ NoTable
    /\ mpc = "start"
    /\ max_issues \in ConfigMaxIssues
    /\ closed_issues = <<>>
    /\ all_issues = <<>>
    /\ df_closed = EmptyFrame
    /\ df_all = EmptyFrame
    /\ stats = NoDict
    /\ plot_data = NoDict
    /\ exit_code = 0
    /\ stages = <<>>
    /\ runs = 0

NextMain ==
    \/ MainStart
    \/ get_jira_client
    \/ search_page
    \/ MainClosedFetched
    \/ MainAllFetched
    \/ MainAgain
    \/ Tick
    \/ DamageFile

SpecMain == InitMain /\ [][NextMain]_vars

(* One call of the fetcher against a server whose pages have any length   *)
(* and whose every call returns.                                           *)
InitPaging ==
    /\ InitFetch
    /\ remote = <<>>
    /\ sizes = PagingSizes
    /\ budget = 1
    /\ NoTable
    /\ NoMain

NextPaging ==
    \/ CallFetch
    \/ get_jira_client
    \/ search_page_any
    \/ ReturnFetch

SpecPaging == InitPaging /\ [][NextPaging]_vars /\ WF_vars(get_jira_client) /\ WF_vars(search_page_any)

----------------------------------------------------------------------------
(* Properties of the cache store and the fetcher *)

CallStarts == pc = "idle" /\ pc' # "idle"
CallEnds == pc # "done" /\ pc' = "done"

EntryOf(o, m) == files[_get_cache_filename(cache_key(o, m))]

Age(e) == clock - e.mtime

(* e holds, readable and in full, a non-empty batch written less than an hour ago *)
FreshNonEmpty(e) == e.exists /\ e.readable /\ e.kind = "json" /\ e.data # <<>> /\ Age(e) < cache_duration

RemoteFailed == \E i \in 1..Len(requests) : requests[i].failed

(* C3 as stated: a call that finds a fresh non-empty entry for its key     *)
(* returns that batch and makes no remote call.                            *)
C3_CacheHitAlways ==
    [][CallStarts /\ FreshNonEmpty(EntryOf(op', max_results'))
        => /\ pc' = "done"
           /\ ret'.kind = "return"
           /\ ret'.value = EntryOf(op', max_results').data
           /\ requests' = <<>>]_vars

(* C3, amended: when the jira library is available, a call that finds a    *)
(* fresh non-empty entry for its key returns that batch and makes no       *)
(* remote call (no connection, no page request).                           *)
C3_CacheHit ==
    [][CallStarts /\ JIRA_AVAILABLE /\ FreshNonEmpty(EntryOf(op', max_results'))
        => /\ pc' = "done"
           /\ ret'.kind = "return"
           /\ ret'.value = EntryOf(op', max_results').data
           /\ requests' = <<>>
           /\ _jira' = _jira]_vars

C3_Witness == pc = "done" /\ JIRA_AVAILABLE /\ ret.via = "cache" /\ ret.value # <<>> /\ requests = <<>>

(* C4 as stated: a batch is served from the cache only if its entry is     *)
(* less than an hour old; an entry of an hour or more is a miss and the    *)
(* fetch then queries the remote service.                                  *)
C4_StaleQueriesAlways ==
    [][CallEnds
        => LET e == EntryOf(op', max_results')
           IN  /\ ret'.via = "cache" => e.exists /\ Age(e) < cache_duration
               /\ e.exists /\ Age(e) >= cache_duration => ret'.via # "cache" /\ requests' # <<>>]_vars

(* C4, amended: a batch is served from the cache only if its entry was     *)
(* written strictly less than an hour before the read; an entry of an hour *)
(* or more is never served, and the fetch then calls the remote service    *)
(* when the jira library is available and max_results >= 1.                *)
C4_Freshness ==
    [][CallEnds
        => LET e == EntryOf(op', max_results')
           IN  /\ ret'.via = "cache" => e.exists /\ Age(e) < cache_duration
               /\ e.exists /\ Age(e) >= cache_duration
                    => /\ ret'.via # "cache"
                       /\ JIRA_AVAILABLE /\ max_results' >= 1 => requests' # <<>>]_vars

(* an intact non-empty entry of exactly one hour was passed over *)
C4_Witness ==
    /\ pc = "done"
    /\ ret.via = "remote"
    /\ ret.saved = "open"
    /\ files[CacheFile].kind = "json" /\ files[CacheFile].data # <<>>
    /\ ret.at - files[CacheFile].mtime = cache_duration

FilesDistinct ==
    \A o1, o2 \in Ops, m1, m2 \in MaxResultsChoices :
        <<o1, m1>> # <<o2, m2>> => _get_cache_filename(cache_key(o1, m1)) # _get_cache_filename(cache_key(o2, m2))

(* C5: distinct (operation, max_results) pairs have distinct cache files,  *)
(* and a batch served from the cache was written by a call with the same   *)
(* operation and the same max_results.                                     *)
C5_KeysDistinct ==
    /\ FilesDistinct
    /\ pc = "done" /\ ret.via = "cache"
         => \E f \in CacheFiles :
              /\ files[f].writer = [op |-> op, max_results |-> max_results]
              /\ files[f].data = ret.value

(* get_all_issues went to the server although the closed batch of the same *)
(* size was cached, fresh and non-empty                                    *)
C5_Witness ==
    /\ pc = "done"
    /\ op = "all"
    /\ ret.via = "remote"
    /\ \E f \in CacheFiles :
         /\ files[f].writer = [op |-> "closed", max_results |-> max_results]
         /\ FreshNonEmpty(files[f])

Searches == SelectSeq(requests, LAMBDA r : r.call = "search")

PageLen(r) == Len(search_issues(op, r.startAt, r.maxResults))

RECURSIVE Held(_, _)
Held(reqs, k) == IF k = 0 THEN 0 ELSE Held(reqs, k - 1) + PageLen(reqs[k])

(* C6 as stated: on a cache miss, against a server that answers every page *)
(* request, the fetch returns the first min(max_results, N) matching       *)
(* records in server order; every page request starts at the number of     *)
(* records held so far, and no request follows a page shorter than 100.    *)
C6_FirstRecordsInOrder ==
    pc = "done" /\ ret.via \notin {"cache", "unavailable"} /\ ret.kind = "return" /\ ~RemoteFailed
        => LET m == Matching(op)
               n == IF max_results < 0 THEN 0 ELSE Min(max_results, Len(m))
           IN  /\ Len(ret.value) = n
               /\ \A i \in 1..n : ret.value[i].key = m[i].key
               /\ \A k \in 1..Len(Searches) :
                    /\ Searches[k].startAt = Held(Searches, k - 1)
                    /\ k < Len(Searches) => PageLen(Searches[k]) = batch_size /\ Held(Searches, k) < max_results

(* C7: a fetch in which a remote call failed (the connection, the first    *)
(* page or a later page) returns the empty list and raises nothing.        *)
C7_RemoteFailureGivesEmpty == pc = "done" /\ RemoteFailed => ret.kind = "return" /\ ret.value = <<>>

(* the second page request failed after a first page of 100 records *)
C7_Witness ==
    /\ pc = "done"
    /\ Len(Searches) = 2
    /\ Searches[2].failed
    /\ PageLen(Searches[1]) = batch_size

CannotBeRead(e) == e.exists /\ Age(e) < cache_duration /\ (~e.readable \/ e.kind \in {"partial", "binary"})

(* C8 as stated: a fresh cache file that cannot be read or decoded is a    *)
(* miss: the fetch raises nothing and, the jira library being available,   *)
(* goes on to the server.                                                  *)
C8_UnreadableIsMiss ==
    [][CallStarts /\ CannotBeRead(EntryOf(op', max_results'))
        => /\ ret'.kind # "raise"
           /\ JIRA_AVAILABLE => pc' = "connect"]_vars

(* A read of the cache: _is_cache_valid, then _load_from_cache. *)
Read(cache_file) ==
    IF _is_cache_valid(cache_file) /\ LoadException(cache_file) = "none"
    THEN [hit |-> TRUE, batch |-> _load_from_cache(cache_file)]
    ELSE [hit |-> FALSE, batch |-> <<>>]

(* C9 as stated: a read right after _save_to_cache(file, batch) returns    *)
(* batch, and a read of a file never written is a miss.                    *)
C9_RoundTripAlways ==
    /\ pc = "done" /\ ret.saved # "none" => Read(CacheFile) = [hit |-> TRUE, batch |-> ret.value]
    /\ \A f \in CacheFiles : files[f].writer = NoWriter => ~Read(f).hit

(* C9, amended: a read within the freshness window of a file that          *)
(* _save_to_cache wrote in full returns the batch written, same records in *)
(* the same order with the same values; a read of a file never written is  *)
(* a miss.                                                                 *)
C9_RoundTrip ==
    /\ pc = "done" /\ ret.saved = "ok" => Read(CacheFile) = [hit |-> TRUE, batch |-> ret.value]
    /\ \A f \in CacheFiles :
         /\ files[f].kind = "json" /\ files[f].readable /\ Age(files[f]) < cache_duration
              => Read(f) = [hit |-> TRUE, batch |-> files[f].data]
         /\ files[f].writer = NoWriter => ~Read(f).hit

(* a batch with a record without resolution and a record with a reporter   *)
(* is read back half an hour after it was written                          *)
C9_Witness ==
    \E f \in CacheFiles :
        /\ files[f].kind = "json"
        /\ Age(files[f]) > 0 /\ Age(files[f]) < cache_duration
        /\ \E i, j \in 1..Len(files[f].data) :
             /\ ~files[f].data[i].open_time_hours.some
             /\ "reporter" \in DOMAIN files[f].data[j]

HoldsReturned(e) == e.exists /\ e.kind = "json" /\ e.text = json_dump(ret.value) /\ e.mtime = ret.at

(* C10 as stated: after a fetch that took the miss path and finished       *)
(* paging, the cache file of its key holds exactly the batch returned,     *)
(* stamped with the time of the fetch.                                     *)
C10_EntryHoldsBatchAlways == pc = "done" /\ ret.via = "remote" => HoldsReturned(files[CacheFile])

(* C10, amended: after a fetch that took the miss path and finished paging *)
(* without a remote failure, and whose cache write succeeded, the cache    *)
(* file of its key holds exactly the batch returned, stamped with the time *)
(* of the fetch, whatever the file held before; also for an empty batch.   *)
C10_EntryHoldsBatch == pc = "done" /\ ret.via = "remote" /\ ret.saved = "ok" => HoldsReturned(files[CacheFile])

(* an empty batch was written over an entry an hour old *)
C10_Witness ==
    /\ pc = "done"
    /\ ret.via = "remote"
    /\ ret.saved = "ok"
    /\ ret.value = <<>>
    /\ ret.at = cache_duration
    /\ calls = 2

----------------------------------------------------------------------------
(* Properties of the table and of a run of main *)

TableBuilt == tpc \in {"table", "stats", "series", "again"}

Keys(rows) == [i \in 1..Len(rows) |-> rows[i]["key"]]

NullCreated(recs) == Cardinality({ i \in 1..Len(recs) : to_datetime(recs[i]["created"]) = NaT })

NegativeOpenTime(recs) ==
    Cardinality({ i \in 1..Len(recs) : recs[i]["open_time_hours"].some /\ recs[i]["open_time_hours"].v < 0 })

(* created parses, and open_time_hours is null or >= 0 *)
ToRetain(d) ==
    /\ to_datetime(d["created"]) # NaT
    /\ ~d["open_time_hours"].some \/ d["open_time_hours"].v >= 0

(* C1 as stated: for a non-empty batch, create_dataframe retains exactly   *)
(* the records whose created parses and whose open_time_hours is null or   *)
(* >= 0; the row count is at most the input count and is the input count   *)
(* minus the rows with null created minus the rows with negative           *)
(* open_time_hours; an unresolved issue with a valid created stays.        *)
C1_RetainedRows ==
    TableBuilt /\ table_issues # <<>> =>
        /\ Len(table.rows) <= Len(table_issues)
        /\ Len(table.rows) = Len(table_issues) - NullCreated(table_issues) - NegativeOpenTime(table_issues)
        /\ Keys(table.rows) = Keys(SelectSeq(table_issues, ToRetain))

Rendered == mpc = "exit" /\ \E i \in 1..Len(stages) : stages[i] = "render"

(* C2 as stated: in every run that renders, open_time_data of the merged   *)
(* series handed to the renderer is the non-null open_time_hours of the    *)
(* closed-only table, whatever the two tables contain.                     *)
C2_OpenTimeFromClosedTable ==
    Rendered =>
        /\ "open_time_data" \in DOMAIN plot_data
        /\ plot_data["open_time_data"] = dropnaNum(Column(df_closed, "open_time_hours"))

----------------------------------------------------------------------------
(* Properties of the fetcher, continued *)

(* e holds, readable and in full, the empty batch written less than an hour ago *)
FreshEmpty(e) == e.exists /\ e.readable /\ e.kind = "json" /\ e.writer # NoWriter /\ e.data = <<>> /\ Age(e) < cache_duration

(* C11 as stated: a fetch that finds a fresh entry holding the empty batch *)
(* does not return from the cache and queries the remote service again.    *)
C11_EmptyRequeriesAlways ==
    [][CallEnds /\ FreshEmpty(EntryOf(op', max_results'))
        => ret'.via # "cache" /\ requests' # <<>>]_vars

(* C11, amended: a fetch that finds a fresh entry holding the empty batch  *)
(* never returns from the cache; it calls the remote service again when    *)
(* the jira library is available and max_results >= 1.                     *)
C11_EmptyRequeries ==
    [][CallEnds /\ FreshEmpty(EntryOf(op', max_results'))
        => /\ ret'.via # "cache"
           /\ JIRA_AVAILABLE /\ max_results' >= 1 => requests' # <<>>]_vars

(* a second fetch went to the server over a fresh empty entry, which is    *)
(* still there because the new write failed                                *)
C11_Witness ==
    /\ pc = "done"
    /\ max_results >= 1
    /\ ret.via = "remote"
    /\ ret.saved = "open"
    /\ requests # <<>>
    /\ FreshEmpty(files[CacheFile])

(* the first min(max_results, N) matching records, converted *)
Fetched ==
    LET m == Matching(op)
        n == IF max_results < 0 THEN 0 ELSE Min(max_results, Len(m))
    IN  [i \in 1..n |-> _issue_to_dict(m[i])]

(* C12: when _save_to_cache fails (the file cannot be opened, or the write *)
(* breaks off), the fetch returns the whole batch it fetched and raises    *)
(* nothing; no other file changes, and the file of the key is left as it   *)
(* was or truncated, never holding another batch.                          *)
C12_PersistFailureReturnsBatch ==
    [][CallEnds /\ ret'.saved \in {"open", "dump"}
        => /\ ret'.kind = "return"
           /\ ret'.value = Fetched'
           /\ \A f \in CacheFiles \ {CacheFile} : files'[f] = files[f]
           /\ ret'.saved = "open" => files' = files
           /\ ret'.saved = "dump" => files'[CacheFile].kind = "partial" /\ files'[CacheFile].data = <<>>]_vars

(* 100 records were fetched and returned although their write broke off *)
C12_Witness == pc = "done" /\ ret.kind = "return" /\ ret.saved = "dump" /\ Len(ret.value) = batch_size

(* The timestamps of a resolved issue give no duration: one of them is     *)
(* missing or is no ISO date, or they cannot be subtracted.                *)
NoDuration(issue) ==
    /\ issue.resolutiondate.kind # "null"
    /\ \/ fromisoformat(issue.created) # "ok"
       \/ fromisoformat(issue.resolutiondate) # "ok"
       \/ SubtractRaises(issue.created, issue.resolutiondate)

(* C13 as stated: a fetch on the miss path, with every remote call         *)
(* answered, whose pages hold a record that gives no duration, still       *)
(* returns all the records, that record with open_time_hours = None.       *)
C13_BadTimestampKeepsBatch ==
    /\ pc = "done"
    /\ ret.via \notin {"cache", "unavailable"}
    /\ ret.kind = "return"
    /\ ~RemoteFailed
    /\ \E i \in 1..Len(Fetched) : NoDuration(Matching(op)[i])
    => /\ Keys(ret.value) = Keys(Fetched)
       /\ \A i \in 1..Len(Fetched) :
            NoDuration(Matching(op)[i]) => ret.value[i]["open_time_hours"] = NoneNum

----------------------------------------------------------------------------
(* Properties of the conversion and of the table, continued *)

Normalized == tpc \in {"batch", "table", "stats", "series", "again"}

(* C14: every dict _issue_to_dict returns has the keys resolved and        *)
(* open_time_hours; open_time_hours is a number if and only if the issue   *)
(* has a resolution date and both timestamps parse; a dict with resolved   *)
(* present never lacks the key open_time_hours.                            *)
C14_ResolvedAndOpenTimeKeys ==
    Normalized =>
        \A i \in 1..Len(table_issues) :
            LET d == table_issues[i]
                src == source_issues[i]
            IN  /\ {"resolved", "open_time_hours"} \subseteq DOMAIN d
                /\ d["resolved"] = src.resolutiondate
                /\ d["open_time_hours"].some <=>
                     /\ d["resolved"] # NoStamp
                     /\ fromisoformat(src.created) = "ok"
                     /\ fromisoformat(src.resolutiondate) = "ok"

(* dicts were returned for an issue whose resolution date is no date, for  *)
(* an issue without creation date and for an unresolved issue              *)
C14_Witness ==
    /\ Normalized
    /\ Keys(table_issues) = <<"K-8", "K-7", "K-2">>
    /\ \A i \in 1..3 : ~table_issues[i]["open_time_hours"].some
    /\ table_issues[1]["resolved"] = BAD

(* the issue has a resolution date and both its timestamps are ISO dates *)
BothValid(issue) ==
    /\ issue.resolutiondate.kind # "null"
    /\ fromisoformat(issue.created) = "ok"
    /\ fromisoformat(issue.resolutiondate) = "ok"

(* C15 as stated: for every issue with a resolution date and two valid     *)
(* timestamps, _issue_to_dict gives a dict whose open_time_hours is        *)
(* (resolved - created) in hours, seconds / 3600; created                  *)
(* 2024-01-01T00:00:00Z and resolved 2024-01-03T12:00:00Z give 60.         *)
C15_OpenTimeIsHours ==
    tpc \in {"raised", "batch", "table", "stats", "series", "again"} =>
        \A i \in 1..Len(source_issues) :
            BothValid(source_issues[i]) =>
                /\ i <= Len(table_issues)
                /\ table_issues[i]["open_time_hours"].some
                /\ table_issues[i]["open_time_hours"].v * SecondsPerHour
                     = source_issues[i].resolutiondate.t - source_issues[i].created.t
                /\ source_issues[i] = ClosedOk => table_issues[i]["open_time_hours"] = Some(60)

(* C16: every row of a table create_dataframe returns has a created time   *)
(* and, when it has an open_time_hours, one that is >= 0.                  *)
C16_RowsValid ==
    TableBuilt =>
        \A i \in 1..Len(table.rows) :
            /\ table.rows[i]["created"] # NaT
            /\ table.rows[i]["open_time_hours"].some => table.rows[i]["open_time_hours"].v >= 0

(* of an issue closed before it was created, one whose created is no date  *)
(* and a sound one, only the last is a row                                 *)
C16_Witness ==
    /\ TableBuilt
    /\ Keys(table_issues) = <<"K-4", "K-5", "K-1">>
    /\ Keys(table.rows) = <<"K-1">>

StatsComputed == tpc \in {"stats", "series", "again"}

(* the non-null open_time_hours of the table, in row order *)
OpenTimes == SelectSeq([i \in 1..Len(table.rows) |-> table.rows[i]["open_time_hours"]], LAMBDA x : x.some)

(* the k-th smallest of the values v (a sequence of optional numbers, all present) *)
Kth(v, k) ==
    CHOOSE x \in { v[i].v : i \in 1..Len(v) } :
        /\ Cardinality({ i \in 1..Len(v) : v[i].v < x }) < k
        /\ Cardinality({ i \in 1..Len(v) : v[i].v <= x }) >= k

(* the quotient q is x, and q lies between lo and hi *)
Is(q, x) == q.some /\ q.num = x * q.den
Between(q, lo, hi) == q.some /\ lo * q.den <= q.num /\ q.num <= hi * q.den

(* C18: get_statistics returns the empty dict for an empty table; else     *)
(* total_tasks is the number of rows and, the table having open_time_hours *)
(* values, time_stats holds their mean, median, min and max, with          *)
(* min <= median <= max and min <= mean <= max; the values 10, 20, 30 give *)
(* mean 20, median 20, min 10, max 30, total_tasks 3.                      *)
C18_Statistics ==
    StatsComputed =>
        IF table.rows = <<>> THEN DOMAIN table_stats = {}
        ELSE /\ table_stats["total_tasks"] = Len(table.rows)
             /\ "open_time_hours" \in table.columns /\ OpenTimes # <<>> =>
                  LET n == Len(OpenTimes)
                      h == n \div 2
                      t == table_stats["time_stats"]
                  IN  /\ t.min = Kth(OpenTimes, 1)
                      /\ t.max = Kth(OpenTimes, n)
                      /\ t.mean.some /\ t.mean.num * n = Sum([i \in 1..n |-> OpenTimes[i].v]) * t.mean.den
                      /\ IF n % 2 = 1
                         THEN Is(t.median, Kth(OpenTimes, h + 1))
                         ELSE t.median.some /\ 2 * t.median.num = (Kth(OpenTimes, h) + Kth(OpenTimes, h + 1)) * t.median.den
                      /\ Between(t.median, t.min, t.max)
                      /\ Between(t.mean, t.min, t.max)
                      /\ [i \in 1..n |-> OpenTimes[i].v] = <<10, 20, 30>> =>
                           /\ Is(t.mean, 20) /\ Is(t.median, 20) /\ t.min = 10 /\ t.max = 30
                           /\ table_stats["total_tasks"] = 3

(* the statistics of the open times 10, 20, 30 *)
C18_Witness ==
    /\ StatsComputed
    /\ [i \in 1..Len(OpenTimes) |-> OpenTimes[i].v] = <<10, 20, 30>>
    /\ Is(table_stats["time_stats"].mean, 20)

SeriesComputed == tpc \in {"series", "again"}

(* the priorities of the rows that have one *)
Priorities == { table.rows[i]["priority"] : i \in 1..Len(table.rows) } \ {NULL}

(* C19 as stated: when no row of the table has a priority, the series have *)
(* no priority_data key.                                                   *)
C19_PriorityOmitted == SeriesComputed /\ Priorities = {} => "priority_data" \notin DOMAIN table_series

(* C19, amended: the series of a table with rows and a priority column     *)
(* always have the key priority_data: its labels are the priorities met,   *)
(* each once, its values their numbers of rows; when no row has a priority *)
(* the entry is present with labels and values empty. Only the series of   *)
(* a table without rows lack the key.                                      *)
C19_PriorityPresent ==
    SeriesComputed =>
        IF table.rows = <<>> THEN DOMAIN table_series = {}
        ELSE "priority" \in table.columns =>
                /\ "priority_data" \in DOMAIN table_series
                /\ LET p == table_series["priority_data"]
                   IN  /\ Len(p.labels) = Cardinality(Priorities)
                       /\ Len(p.values) = Len(p.labels)
                       /\ { p.labels[k] : k \in 1..Len(p.labels) } = Priorities
                       /\ \A k \in 1..Len(p.labels) :
                            p.values[k] = Cardinality({ i \in 1..Len(table.rows) : table.rows[i]["priority"] = p.labels[k] })
                       /\ \A k \in 1..(Len(p.values) - 1) : p.values[k] >= p.values[k + 1]

(* a table of one row without priority: priority_data is there, and empty *)
C19_Witness ==
    /\ SeriesComputed
    /\ Len(table.rows) = 1
    /\ Priorities = {}
    /\ table_series["priority_data"] = [labels |-> <<>>, values |-> <<>>]

(* the created dates of the rows *)
Days == { table.rows[i]["created_date"].v : i \in 1..Len(table.rows) }

(* C20: for a table with rows and a created_date column, daily_tasks_data  *)
(* has one entry per distinct created date of the table, its dates         *)
(* strictly ascending, its created of the same length giving for each date *)
(* the number of rows created on it; the counts sum to the number of rows. *)
C20_DailyTasks ==
    SeriesComputed /\ table.rows # <<>> /\ "created_date" \in table.columns =>
        /\ "daily_tasks_data" \in DOMAIN table_series
        /\ LET d == table_series["daily_tasks_data"]
           IN  /\ Len(d.dates) = Cardinality(Days)
               /\ { d.dates[k] : k \in 1..Len(d.dates) } = Days
               /\ \A k \in 1..(Len(d.dates) - 1) : d.dates[k] < d.dates[k + 1]
               /\ Len(d.created) = Len(d.dates)
               /\ \A k \in 1..Len(d.dates) :
                    d.created[k] = Cardinality({ i \in 1..Len(table.rows) : table.rows[i]["created_date"] = Some(d.dates[k]) })
               /\ Sum(d.created) = Len(table.rows)

(* three rows, the latest first, two of them created on the same day *)
C20_Witness ==
    /\ SeriesComputed
    /\ Keys(table.rows) = <<"K-11", "K-10", "K-9">>
    /\ table_series["daily_tasks_data"] = [dates |-> <<1, 33>>, created |-> <<2, 1>>]

----------------------------------------------------------------------------
(* Properties of a run of main *)

(* The stages of a run that ended at line 84 or in the handler of line 215 *)
(* before get_all_issues was called.                                       *)
EndedAfterClosed ==
    /\ exit_code # 0
    /\ calls = 1
    /\ stages = <<"config", "fetch_closed">>
    /\ all_issues = <<>>
    /\ df_closed = EmptyFrame
    /\ df_all = EmptyFrame
    /\ stats = NoDict
    /\ plot_data = NoDict

(* C21: a run whose get_closed_issues gave no issue has ended with a       *)
(* non-zero status, having made that one call of the fetcher only: no      *)
(* get_all_issues, no table, no statistics, no series and no rendering.    *)
C21_EmptyClosedIsFatal ==
    /\ mpc = "exit" /\ closed_issues = <<>> => EndedAfterClosed
    /\ mpc = "all" => closed_issues # <<>>

C21_Witness ==
    /\ mpc = "exit"
    /\ runs = 0
    /\ JIRA_AVAILABLE
    /\ faults = 0
    /\ remote = <<>>
    /\ closed_issues = <<>>
    /\ exit_code = 1
    /\ EndedAfterClosed

(* the stage s of the current run has been entered *)
Reached(s) == \E i \in DOMAIN stages : stages[i] = s

(* the step of main in which the result of get_all_issues is taken *)
AllReturns == mpc = "all" /\ mpc' # "all" /\ ret.kind = "return"

C22_FallbackAlways ==
    AllReturns =>
        /\ closed_issues # <<>>
        /\ \E i \in DOMAIN stages' : stages'[i] = "tables"
        /\ df_closed' = create_dataframe(closed_issues)
        /\ IF ret.value = <<>>
           THEN /\ all_issues' = closed_issues
                /\ df_all' = create_dataframe(closed_issues)
                /\ df_all' = df_closed'
           ELSE /\ all_issues' = ret.value
                /\ df_all' = create_dataframe(ret.value)

(* C22: when get_all_issues returns, the closed batch being non-empty, the *)
(* run goes on to the tables; on an empty batch the all-status table is    *)
(* built from the closed batch and equals the closed-only table, on a      *)
(* non-empty batch it is built from that batch.                            *)
C22_Fallback == [][C22_FallbackAlways]_vars

(* a first run whose get_all_issues gave nothing after get_closed_issues   *)
(* had succeeded: the server holds an open issue, so a batch of all        *)
(* statuses would differ from the closed one.                              *)
C22_Witness ==
    /\ mpc = "exit"
    /\ runs = 0
    /\ remote = <<Resolved, ClosedOk, OpenIssue>>
    /\ max_issues = 1000
    /\ closed_issues # <<>>
    /\ all_issues = closed_issues
    /\ df_all = df_closed
    /\ Reached("tables")
    /\ exit_code = 0

----------------------------------------------------------------------------
(* Properties of create_dataframe on any batch *)

(* .dt of lines 80-82 and 86 is defined on a column of times only: values  *)
(* that are UTC times or NaT. On any other column it raises AttributeError. *)
datetimelike(df, c) ==
    \A i \in 1..Len(df.rows) : df.rows[i][c] = NaT \/ (df.rows[i][c].kind = "iso" /\ df.rows[i][c].tz)

(* lines 42-59: create_dataframe(recs) raises *)
create_dataframe_raises(recs) ==
    /\ recs # <<>>
    /\ LET df == _convert_dates(FromRecords(recs))
       IN  \/ "created" \in df.columns /\ ~datetimelike(df, "created")
           \/ "resolved" \in df.columns /\ ~datetimelike(df, "resolved")

(* C23: create_dataframe on an empty batch raises nothing and returns the  *)
(* empty table, a table of no row.                                         *)
C23_EmptyBatchEmptyTable ==
    TableBuilt /\ table_issues = <<>> =>
        /\ ~create_dataframe_raises(table_issues)
        /\ table = EmptyFrame
        /\ Len(table.rows) = 0
        /\ empty(table)

C23_Witness ==
    /\ tpc = "table"
    /\ source_issues = <<>>
    /\ table_issues = <<>>
    /\ table = EmptyFrame

(* the table after line 52 *)
Converted == _convert_dates(FromRecords(table_issues))

(* the value of a time column after to_datetime: the UTC time of a text    *)
(* that is a date, NaT for a missing value or a text that is no date       *)
Coerced(v) == IF v.kind = "iso" THEN [kind |-> "iso", t |-> v.t, tz |-> TRUE] ELSE NaT

(* C24: create_dataframe raises on no non-empty batch of records, whatever *)
(* its created and resolved values (dates, texts that are no date, missing *)
(* values) and its missing open_time_hours, a batch whose open_time_hours  *)
(* are all missing included; in the table a text that is no date has       *)
(* become a missing value.                                                 *)
C24_NeverRaises ==
    TableBuilt /\ table_issues # <<>> =>
        /\ ~create_dataframe_raises(table_issues)
        /\ \A i \in 1..Len(table_issues) : \A c \in {"created", "resolved"} :
              Converted.rows[i][c] = Coerced(table_issues[i][c])
        /\ table = _clean_data(_add_calculated_fields(Converted))
        /\ \A i \in 1..Len(table.rows) : \A c \in {"created", "resolved"} :
              table.rows[i][c].kind # "bad"
        /\ (\A i \in 1..Len(table_issues) : ~table_issues[i]["open_time_hours"].some) => empty(table)

(* an open issue, one whose created is no date and one whose resolution    *)
(* date is no date: no open_time_hours, and a table of no row              *)
C24_Witness ==
    /\ tpc = "table"
    /\ Keys(table_issues) = <<"K-2", "K-5", "K-8">>
    /\ \A i \in 1..3 : ~table_issues[i]["open_time_hours"].some
    /\ table_issues[2]["created"] = BAD
    /\ table_issues[3]["resolved"] = BAD
    /\ Converted.rows[2]["created"] = NaT
    /\ Converted.rows[3]["resolved"] = NaT
    /\ table.rows = <<>>

----------------------------------------------------------------------------
(* The order of the stages of a run *)

(* lines 74-173 in the order of the text *)
StageOrder == <<"config", "fetch_closed", "fetch_all", "tables", "stats", "series", "render">>

IsPrefix(s, t) == Len(s) <= Len(t) /\ SubSeq(t, 1, Len(s)) = s

(* a call of the fetcher is in progress *)
Fetching == pc \in {"connect", "page", "done"}

(* C25: the stages of a run are entered in the one order config,           *)
(* get_closed_issues, get_all_issues, tables, statistics, series,          *)
(* rendering: a fetch in progress is that of the stage the run is in,      *)
(* get_all_issues starts with the closed batch in hand, the tables are     *)
(* built after both calls and from their batches, the statistics from the  *)
(* closed table after the tables, the series after the statistics, and     *)
(* rendering is reached only with a closed batch and a closed table that   *)
(* are not empty.                                                          *)
C25_StageOrder ==
    /\ IsPrefix(stages, StageOrder)
    /\ Fetching => mpc \in {"closed", "all"} /\ op = mpc
    /\ mpc = "closed" => stages = SubSeq(StageOrder, 1, 2) /\ calls = 1
    /\ mpc = "all" => stages = SubSeq(StageOrder, 1, 3) /\ calls = 2 /\ closed_issues # <<>>
    /\ mpc \in {"start", "closed", "all"} =>
          df_closed = EmptyFrame /\ df_all = EmptyFrame /\ stats = NoDict /\ plot_data = NoDict
    /\ Reached("tables") =>
          /\ mpc = "exit" /\ ~Fetching /\ calls = 2
          /\ df_closed = create_dataframe(closed_issues)
          /\ df_all = create_dataframe(all_issues)
    /\ ~Reached("tables") => df_closed = EmptyFrame /\ df_all = EmptyFrame
    /\ Reached("stats") => stats = get_statistics(df_closed)
    /\ ~Reached("stats") => stats = NoDict
    /\ Reached("series") =>
          DOMAIN plot_data = DOMAIN prepare_for_plotting(df_closed) \cup DOMAIN prepare_for_plotting(df_all)
    /\ ~Reached("series") => plot_data = NoDict
    /\ Reached("render") <=> mpc = "exit" /\ exit_code = 0
    /\ Reached("render") => closed_issues # <<>> /\ ~empty(df_closed) /\ df_closed.rows # <<>>

(* a run that rendered, and whose batches differ *)
C25_Witness ==
    /\ mpc = "exit"
    /\ stages = StageOrder
    /\ closed_issues # <<>>
    /\ all_issues # closed_issues
    /\ df_closed.rows # <<>>
    /\ exit_code = 0

----------------------------------------------------------------------------
(* The cache store in a run of main *)

(* the file of the query o of this run: lines 110-111 / 187-188 with the   *)
(* size of lines 74 and 88                                                 *)
OwnFile(o) ==
    "data/cache/KAFKA_" \o (IF o = "closed" THEN "closed_issues_" ELSE "all_issues_") \o ToString(Min(max_issues, 500)) \o ".json"

(* a step of the program, not of its environment, that changes the store *)
StoreWritten == files' # files /\ faults' = faults

(* main calls the fetcher *)
FetchCalled == calls' = calls + 1

C26_Step ==
    /\ calls' <= 2
    /\ FetchCalled =>
          /\ op' = (IF calls' = 1 THEN "closed" ELSE "all")
          /\ _get_cache_filename(cache_key(op', max_results')) = OwnFile(op')
          /\ ret'.kind = "return" /\ ret'.via = "cache" =>
                ret'.value = _load_from_cache(OwnFile(op')) /\ _is_cache_valid(OwnFile(op'))
    /\ StoreWritten =>
          /\ pc # "done" /\ pc' = "done"
          /\ \A f \in CacheFiles : files'[f] # files[f] => f = OwnFile(op)

(* C26: a run calls the fetcher at most twice, first for the closed query  *)
(* and then for the all-status query; each call reads the entry of its own *)
(* key only and writes, when it ends, no other entry.                      *)
C26_TwoAccesses == [][C26_Step]_vars

(* a first run that wrote the two entries of its size and no other *)
C26_Witness ==
    /\ mpc = "exit"
    /\ runs = 0
    /\ calls = 2
    /\ max_issues = 1000
    /\ \A f \in CacheFiles : files[f].exists <=> f \in {OwnFile("closed"), OwnFile("all")}
    /\ files[OwnFile("closed")].writer = [op |-> "closed", max_results |-> 500]
    /\ files[OwnFile("all")].writer = [op |-> "all", max_results |-> 500]

----------------------------------------------------------------------------
(* The size of the fetches of a run *)

Capped == IF max_issues < 500 THEN max_issues ELSE 500

(* C27: in a run both calls of the fetcher are given min(max_issues, 500): *)
(* the call in progress has that size, its cache file is named after that  *)
(* size, and no batch of the run holds more than that many, so more than   *)
(* 500, records.                                                           *)
C27_CappedSize ==
    /\ Capped <= 500
    /\ mpc \in {"closed", "all"} =>
          /\ max_results = Capped
          /\ CacheFile = OwnFile(op)
          /\ CacheFile = "data/cache/KAFKA_" \o op \o "_issues_" \o ToString(Capped) \o ".json"
          /\ Len(issues) <= Capped
          /\ ret.kind = "return" => Len(ret.value) <= Capped
    /\ Len(closed_issues) <= Capped
    /\ Len(all_issues) <= Capped
    /\ \A f \in CacheFiles : files[f].exists /\ files[f].writer # NoWriter =>
          /\ files[f].writer.max_results = Capped
          /\ f = OwnFile(files[f].writer.op)

(* max_issues is 1000: the all-status fetch runs with 500 *)
C27_Witness ==
    /\ max_issues = 1000
    /\ mpc = "all"
    /\ pc = "page"
    /\ max_results = 500
    /\ requests[Len(requests)].maxResults = batch_size
    /\ files[OwnFile("closed")].exists
    /\ OwnFile("closed") = "data/cache/KAFKA_closed_issues_500.json"

----------------------------------------------------------------------------
(* A fetch that fails on the server *)

(* the step in which a call ends on a failed remote call *)
EndsOnRemoteFailure == CallEnds /\ (\E i \in 1..Len(requests') : requests'[i].failed)

C28_Step ==
    EndsOnRemoteFailure =>
        /\ files' = files
        /\ files'[CacheFile] = files[CacheFile]
        /\ ret'.kind = "return"
        /\ ret'.value = <<>>
        /\ ret'.saved = "none"

(* C28: a fetch that ends on a failed remote call changes no cache file,   *)
(* so the entry of its key keeps its content and its write time, and it    *)
(* returns the empty list: the records of the pages it had received are    *)
(* neither returned nor written.                                           *)
C28_FailureLeavesCache == [][C28_Step]_vars

(* the second page request failed after a first page of 100 records, and   *)
(* the key has no entry                                                    *)
C28_Witness ==
    /\ pc = "done"
    /\ Len(Searches) = 2
    /\ ~Searches[1].failed
    /\ Searches[2].failed
    /\ Searches[2].startAt = batch_size
    /\ ret.value = <<>>
    /\ ~files[CacheFile].exists

----------------------------------------------------------------------------
(* The paging loop against pages of any length *)

(* ceil(max_results / 100), and 0 for max_results <= 0 *)
MaxPages == IF max_results >= 1 THEN (max_results + batch_size - 1) \div batch_size ELSE 0

C29_Bound ==
    /\ Len(Searches) <= MaxPages
    /\ max_results <= 0 => Searches = <<>>
    /\ \A k \in 1..Len(Searches) : Searches[k].maxResults \in 1..batch_size
    /\ pc = "page" =>
          /\ Len(issues) < max_results
          /\ requests[Len(requests)].maxResults = Min(batch_size, max_results - Len(issues))
          /\ requests[Len(requests)].startAt = Len(issues)

(* C29: against a server whose calls return, the paging loop makes at most *)
(* ceil(max_results / 100) page requests for max_results >= 1 and none for *)
(* max_results <= 0, whatever the lengths of the pages; each request asks  *)
(* for min(100, max_results - records held); and the call ends.            *)
C29_PagingTerminates == []C29_Bound /\ ((pc \in {"connect", "page"}) ~> (pc = "done"))

(* a page and a half asked for: a first page of 100, a second request for  *)
(* 50 answered with 250 records                                            *)
C29_Witness ==
    /\ pc = "done"
    /\ max_results = 150
    /\ Len(Searches) = 2
    /\ Searches[2].startAt = 100
    /\ Searches[2].maxResults = 50
    /\ Len(ret.value) = 350

----------------------------------------------------------------------------
(* The fetcher without the jira library *)

C30_Step ==
    CallStarts /\ ~JIRA_AVAILABLE =>
        /\ pc' = "done"
        /\ ret'.kind = "return"
        /\ ret'.value = <<>>
        /\ ret'.via = "unavailable"
        /\ requests' = <<>>
        /\ files' = files

(* C30: without the jira library a call of get_closed_issues or            *)
(* get_all_issues returns the empty list at once: no connection, no page   *)
(* request, no cache file changed, and the entry of its key not used, be   *)
(* it fresh and non-empty or a file that cannot be read.                   *)
C30_UnavailableGivesEmpty == [][C30_Step]_vars

(* the library is gone after a call that wrote a batch under the same key *)
C30_Witness ==
    /\ pc = "done"
    /\ ~JIRA_AVAILABLE
    /\ ret.kind = "return"
    /\ ret.value = <<>>
    /\ requests = <<>>
    /\ FreshNonEmpty(files[CacheFile])
    /\ files[CacheFile].writer = [op |-> op, max_results |-> max_results]

====
